---- MODULE Spec2Model ----
(***************************************************************************)
(* Survey analyst: the query-and-synthesis orchestration layer.            *)
(*                                                                         *)
(* The model covers the App component (message list, input box,            *)
(* processing flag, abort controller, live progress trace, persona and     *)
(* model selection) and the SurveyAgent service (catalog construction,     *)
(* selector call, tool loop, chat session).  JavaScript runs each event    *)
(* handler and each continuation of an await to completion, so one action  *)
(* of the model is one such run: from an event or a provider response up   *)
(* to the next await that really suspends.                                 *)
(*                                                                         *)
(* Strings are sequences of tokens; the token " " is white space.          *)
(***************************************************************************)
EXTENDS Integers, Sequences, FiniteSets, TLC

VARIABLES
    \* ---- App state (React state of the App component)
    questionnaire,      \* QuestionnaireRow[] | null
    results,            \* ResultRow[] | null
    qualitativeData,    \* QualitativeAnalysisRow[] | null
    messages,           \* ChatMessage[]
    input,              \* text of the input box
    isProcessing,       \* a turn is in flight
    agent,              \* id of the current SurveyAgent, 0 for null
    abortController,    \* turn whose controller is held, 0 for null
    progressiveTraces,  \* live progress trace (state and ref move together)
    selectedModel,
    selectedPersona,
    \* ---- SurveyAgent objects, by id
    agents,
    \* ---- the turn in flight (locals of handleSend / sendMessage)
    turn,
    \* ---- the provider side and bookkeeping for the properties
    sessions,           \* chat sessions created so far, by id
    log                 \* counters and the last observable events

vars == << questionnaire, results, qualitativeData, messages, input,
           isProcessing, agent, abortController, progressiveTraces,
           selectedModel, selectedPersona, agents, turn, sessions, log >>

----------------------------------------------------------------------------
(* Bounds of the model *)

MaxTurns == 2           \* user turns in a run with reconfiguration
MaxToolResponses == 6   \* responses that request tools, in a run of one long turn
MaxNotices == 1         \* persona or model changes in a run
MaxClears == 1          \* uses of Clear Chat History in a run
MaxReloads == 1         \* uploads of another results workbook in a run

\* What the user and the provider may do in one run: a run is either one long
\* turn, or several short turns with one reconfiguration, or two short turns
\* with several reconfigurations, or a turn with a clear, or a turn and a clear
\* with any of the workbooks and uploads of another one.  The first four work
\* on the workbook results.xlsx.
Budgets ==
    { [turns |-> 1, toolResponses |-> MaxToolResponses, notices |-> 0, clears |-> 0,
       reloads |-> 0, workbooks |-> {"results.xlsx"}],
      [turns |-> MaxTurns, toolResponses |-> 1, notices |-> 1, clears |-> 0,
       reloads |-> 0, workbooks |-> {"results.xlsx"}],
      [turns |-> 2, toolResponses |-> 1, notices |-> MaxNotices, clears |-> 0,
       reloads |-> 0, workbooks |-> {"results.xlsx"}],
      [turns |-> 1, toolResponses |-> 1, notices |-> 0, clears |-> MaxClears,
       reloads |-> 0, workbooks |-> {"results.xlsx"}],
      [turns |-> 1, toolResponses |-> 1, notices |-> 0, clears |-> 1,
       reloads |-> MaxReloads,
       workbooks |-> {"results.xlsx", "regions.xlsx", "broken.xlsx", "empty.xlsx"}] }

----------------------------------------------------------------------------
(* Strings *)

WS == " "
Null == <<"#null">>
NoFile == "null"
Undefined == <<"#undefined">>

RECURSIVE TrimStart(_)
TrimStart(s) == IF s # <<>> /\ Head(s) = WS THEN TrimStart(Tail(s)) ELSE s

RECURSIVE TrimEnd(_)
TrimEnd(s) ==
    IF s # <<>> /\ s[Len(s)] = WS THEN TrimEnd(SubSeq(s, 1, Len(s) - 1)) ELSE s

Trim(s) == TrimEnd(TrimStart(s))

LowerToken(t) ==
    CASE t = "Text" -> "text"
      [] t = "Integer" -> "integer"
      [] OTHER -> t

ToLowerCase(s) == [i \in 1..Len(s) |-> LowerToken(s[i])]

Includes(s, tok) == \E i \in 1..Len(s) : s[i] = tok

Range(s) == {s[i] : i \in 1..Len(s)}

RECURSIVE SeqFilter(_, _)
\* Array.prototype.filter with the predicate given as a set of kept values
SeqFilter(s, keep) ==
    IF s = <<>> THEN <<>>
    ELSE IF Head(s) \in keep THEN <<Head(s)>> \o SeqFilter(Tail(s), keep)
    ELSE SeqFilter(Tail(s), keep)


RECURSIVE Dedup(_)
\* insertion order of a JavaScript Set built from an array
Dedup(s) ==
    IF s = <<>> THEN <<>>
    ELSE LET init == Dedup(SubSeq(s, 1, Len(s) - 1))
             last == s[Len(s)]
         IN  IF last \in Range(init) THEN init ELSE Append(init, last)

\* UTF-16 code units of the tokens used (Array.prototype.sort's default order)
CharCode(t) ==
    CASE t = WS -> 32
      [] t = "all" -> 97
      [] t = "gender" -> 103
      [] t = "region" -> 114
      [] OTHER -> 122

RECURSIVE StrLess(_, _)
StrLess(a, b) ==
    IF a = <<>> THEN b # <<>>
    ELSE IF b = <<>> THEN FALSE
    ELSE IF CharCode(Head(a)) # CharCode(Head(b))
         THEN CharCode(Head(a)) < CharCode(Head(b))
    ELSE StrLess(Tail(a), Tail(b))

RECURSIVE SortStrings(_)
\* the sorted array of a set of strings
SortStrings(S) ==
    IF S = {} THEN <<>>
    ELSE LET m == CHOOSE x \in S : \A y \in S \ {x} : ~StrLess(y, x)
         IN  <<m>> \o SortStrings(S \ {m})

----------------------------------------------------------------------------
(* Uploaded data: the files a user can load *)

Str(t) == <<t>>

QuestionnaireFull ==
    << [name |-> Str("q1"), type |-> <<"select_one", WS, "yn">>, label |-> Str("L1")],
       [name |-> Str("q2"), type |-> Str("text"),                label |-> Str("L2")],
       [name |-> Str("n1"), type |-> Str("note"),                label |-> Str("L3")],
       [name |-> Str("q3"), type |-> Str("Text"),                label |-> Str("L4")],
       [name |-> Str("d1"), type |-> Str("date"),                label |-> Str("L5")] >>

\* the questionnaire files a user can load, and the rows parseCSV gives for each
QuestionnaireFiles == { "empty.csv", "survey.csv" }

QuestionnaireRows(file) ==
    IF file = "survey.csv" THEN QuestionnaireFull ELSE <<>>

ResultsFull ==
    << [question |-> Str("q1"), disaggregation |-> Str("all"),
        value |-> Str("63"), sample_size |-> Str("450"), gender |-> Undefined],
       [question |-> Str("q1"), disaggregation |-> Str("gender"),
        value |-> Str("19"), sample_size |-> Str("120"), gender |-> Str("female")],
       [question |-> Str("x1"), disaggregation |-> Str("all"),
        value |-> Str("7"), sample_size |-> Str("450"), gender |-> Undefined],
       [question |-> Str("q1"), disaggregation |-> <<"gender", WS>>,
        value |-> Str("44"), sample_size |-> Str("330"), gender |-> Str("male")],
       [question |-> Str("d1"), disaggregation |-> Str("all"),
        value |-> Str("12"), sample_size |-> Str("450"), gender |-> Undefined] >>


\* a cell of the column proportion_percent as sheet_to_json gives it: absent
\* for an empty cell, a number for a numeric cell, a string for a text cell;
\* the value is held in ten-thousandths (0.45 is 4500)
NoCell == [type |-> "undefined", units |-> 0]
NumberCell(units) == [type |-> "number", units |-> units]
TextCell(units) == [type |-> "string", units |-> units]

QualitativeFull ==
    << [question |-> Str("q2"), theme |-> Str("Executive Summary"),
        summary |-> Str("S0"), proportion_percent |-> NoCell],
       [question |-> Str("q2"), theme |-> Str("Collateral"),
        summary |-> Str("S1"), proportion_percent |-> NumberCell(4500)],
       [question |-> Str("q3"), theme |-> Str("Fees"),
        summary |-> Str("S2"), proportion_percent |-> NumberCell(0)],
       [question |-> Str("q1"), theme |-> Str("Executive Summary"),
        summary |-> Undefined, proportion_percent |-> NoCell],
       [question |-> Str("q3"), theme |-> Str("Access"),
        summary |-> Str("S3"), proportion_percent |-> NoCell],
       [question |-> Str("q1"), theme |-> Str("Executive Summary"),
        summary |-> Str("S4"), proportion_percent |-> NoCell],
       [question |-> Str("q1"), theme |-> Str("Trust"),
        summary |-> Str("S5"), proportion_percent |-> TextCell(1234)] >>

ResultsRegions ==
    << [question |-> Str("q1"), disaggregation |-> Str("region"),
        value |-> Str("30"), sample_size |-> Str("200"), gender |-> Undefined],
       [question |-> Str("q1"), disaggregation |-> Str("all"),
        value |-> Str("63"), sample_size |-> Str("450"), gender |-> Undefined],
       [question |-> Str("q1"), disaggregation |-> <<WS, "region">>,
        value |-> Str("31"), sample_size |-> Str("250"), gender |-> Undefined],
       [question |-> Str("q2"), disaggregation |-> Undefined,
        value |-> Str("5"), sample_size |-> Str("450"), gender |-> Undefined] >>

\* a first sheet whose cells carry blanks that parseExcelResults keeps
ResultsPadded ==
    << [question |-> <<WS, "x2">>, disaggregation |-> Str("all"),
        value |-> Str("8"), sample_size |-> Str("450"), gender |-> Undefined],
       [question |-> Str("q1"), disaggregation |-> <<"region", WS>>,
        value |-> Str("30"), sample_size |-> Str("200"), gender |-> Undefined] >>

\* the workbooks a user can load: results.xlsx has two sheets, regions.xlsx
\* and empty.xlsx have one sheet (the one of empty.xlsx without rows), and
\* broken.xlsx has a second sheet that sheet_to_json cannot read
ResultsFiles == { "results.xlsx", "regions.xlsx", "broken.xlsx", "empty.xlsx" }

\* the array setQualitativeData([]) stores
NoRows == "[]"

\* parseExcelResults: the rows of the first sheet
ResultRows(file) ==
    CASE file = "results.xlsx" -> ResultsFull
      [] file = "regions.xlsx" -> ResultsRegions
      [] file = "broken.xlsx" -> ResultsPadded
      [] OTHER -> <<>>

\* the rows of a loaded qualitative dataset
QualitativeRows(file) ==
    IF file = "results.xlsx" THEN QualitativeFull ELSE <<>>

\* parseExcelQualitative: an empty array for a workbook of one sheet, the rows
\* of the second sheet, or an exception
ParseExcelQualitative(file) ==
    [threw |-> file = "broken.xlsx",
     rows |-> IF file = "broken.xlsx" THEN <<>> ELSE QualitativeRows(file)]

\* handleFileSelect if a missing or unreadable second sheet left the
\* qualitative dataset as it was
QualitativeOfStale(file) ==
    LET parsedQual == ParseExcelQualitative(file)
    IN  IF ~parsedQual.threw /\ Len(parsedQual.rows) > 0 THEN file ELSE qualitativeData

\* the qualitative dataset handleFileSelect stores for a workbook
QualitativeOf(file) ==
    LET parsedQual == ParseExcelQualitative(file)
    IN  IF ~parsedQual.threw /\ Len(parsedQual.rows) > 0 THEN file ELSE NoRows

----------------------------------------------------------------------------
(* SurveyAgent: catalog construction *)

Truthy(s) == s # Undefined /\ s # Null /\ s # <<>>

\* extractDisaggregationValues without the sort: the insertion order of the Set
ExtractDisaggregationValuesUnsorted(res) ==
    Dedup([i \in 1..Len(SelectSeq(res, LAMBDA row : Truthy(row.disaggregation))) |->
             Trim(SelectSeq(res, LAMBDA row : Truthy(row.disaggregation))[i].disaggregation)])

\* extractDisaggregationValues
ExtractDisaggregationValues(res) ==
    SortStrings({ Trim(res[i].disaggregation) :
                    i \in {j \in 1..Len(res) : Truthy(res[j].disaggregation)} })

\* the filter of initAgents: rows with a name and a recognised type
IsRelevantQuestion(q) ==
    LET type == Trim(ToLowerCase(IF Truthy(q.type) THEN q.type ELSE <<>>))
        isSelect == Includes(type, "select_one") \/ Includes(type, "select_multiple")
        isNumeric == type \in {Str("integer"), Str("decimal"), Str("calculate")}
        isText == type = Str("text")
    IN  Truthy(q.name) /\ (isSelect \/ isNumeric \/ isText)

RelevantQuestions(qs) ==
    SelectSeq(qs, LAMBDA q : IsRelevantQuestion(q))

DeclaredNames(qs) ==
    LET relevantQuestions == RelevantQuestions(qs)
    IN  { Trim(relevantQuestions[i].name) : i \in 1..Len(relevantQuestions) }

\* every variable of the results taken as an analysis-time variable
AnalysisTimeVarsAll(qs, res) ==
    LET names == [i \in 1..Len(res) |-> Trim(res[i].question)]
    IN  Dedup(SelectSeq(names, LAMBDA n : Truthy(n)))

\* variables of the results absent from the questionnaire, in first-seen order
AnalysisTimeVars(qs, res) ==
    LET names == [i \in 1..Len(res) |-> Trim(res[i].question)]
        resultsVariables == Dedup(SelectSeq(names, LAMBDA n : Truthy(n)))
        declared == DeclaredNames(qs)
    IN  SelectSeq(resultsVariables, LAMBDA v : v \notin declared)

ValidQuestionNames(qs, res) ==
    DeclaredNames(qs) \cup Range(AnalysisTimeVars(qs, res))

RECURSIVE SplitFirst(_)
\* s.split(' ')[0]
SplitFirst(s) ==
    IF s = <<>> \/ Head(s) = WS THEN <<>> ELSE <<Head(s)>> \o SplitFirst(Tail(s))

\* the line of the context block for a relevant questionnaire row
QuestionnaireContextLine(q) ==
    LET cleanType == SplitFirst(IF Truthy(q.type) THEN q.type ELSE <<>>)
    IN  [variable |-> Trim(q.name),
         type |-> cleanType,
         toolHint |-> IF cleanType = Str("text") THEN "[QUALITATIVE]" ELSE "[QUANTITATIVE]",
         question |-> IF Truthy(q.label) THEN Trim(q.label) ELSE Str("No Label")]

\* the line of the context block for an analysis-time variable
AnalysisContextLine(v) ==
    [variable |-> v, type |-> Str("analysis"), toolHint |-> "[QUANTITATIVE]",
     question |-> Str("Analysis variable")]

\* questionContextString: questionnaireContext + analysisContext, line by line
QuestionContext(qs, res) ==
    LET relevantQuestions == RelevantQuestions(qs)
        analysisTimeVars == AnalysisTimeVars(qs, res)
    IN  [i \in 1..Len(relevantQuestions) |-> QuestionnaireContextLine(relevantQuestions[i])]
        \o
        [i \in 1..Len(analysisTimeVars) |-> AnalysisContextLine(analysisTimeVars[i])]


----------------------------------------------------------------------------
(* SurveyAgent: the two queries *)

QUANT_TOOL_NAME == "query_survey_data"
QUAL_TOOL_NAME == "query_qualitative_data"

\* row[disaggregation]: the column of the row named by the disaggregation key
RowColumn(row, key) ==
    IF Len(key) = 1 /\ key[1] \in DOMAIN row THEN row[key[1]] ELSE Undefined

\* executeQuantQuery with the disaggregation key itself as the group
ExecuteQuantQueryGroupKey(a, question_name, disaggregation) ==
    LET rows == SelectSeq(ResultRows(a.results),
                    LAMBDA row : row.question = question_name
                                 /\ row.disaggregation = disaggregation)
    IN  [i \in 1..Len(rows) |->
            [value |-> rows[i].value,
             sample_size |-> rows[i].sample_size,
             group |-> disaggregation]]

\* executeQuantQuery if it handed out every row only once in a turn
ExecuteQuantQueryOnce(a, question_name, disaggregation) ==
    IF \E i \in 1..Len(turn.collectedData) :
           /\ turn.collectedData[i].type = "Quantitative"
           /\ turn.collectedData[i].query.question_name = question_name
           /\ turn.collectedData[i].query.disaggregation = disaggregation
    THEN <<>>
    ELSE LET rows == SelectSeq(ResultRows(a.results),
                        LAMBDA row : row.question = question_name
                                     /\ row.disaggregation = disaggregation)
         IN  [i \in 1..Len(rows) |->
                [value |-> rows[i].value,
                 sample_size |-> rows[i].sample_size,
                 group |-> IF disaggregation # Str("all")
                           THEN RowColumn(rows[i], disaggregation)
                           ELSE Str("all")]]

\* executeQuantQuery
ExecuteQuantQuery(a, question_name, disaggregation) ==
    LET rows == SelectSeq(ResultRows(a.results),
                    LAMBDA row : row.question = question_name
                                 /\ row.disaggregation = disaggregation)
    IN  [i \in 1..Len(rows) |->
            [value |-> rows[i].value,
             sample_size |-> rows[i].sample_size,
             group |-> IF disaggregation # Str("all")
                       THEN RowColumn(rows[i], disaggregation)
                       ELSE Str("all")]]

NoQualitativeFound == [message |-> Str("No qualitative analysis found for this variable.")]

NO_SUMMARY == Str("No executive summary available.")

\* the truth value JavaScript gives a cell: undefined, 0 and NaN are falsy, a
\* non-empty string is truthy
CellTruthy(cell) ==
    \/ cell.type = "string"
    \/ cell.type = "number" /\ cell.units # 0

\* (Number(cell) * 100).toFixed(1) + '%': the number of tenths of a percent,
\* halves rounded up
PercentToFixed1(cell) == [text |-> "%", tenths |-> (cell.units + 5) \div 10]

NotAvailable == [text |-> "N/A", tenths |-> 0]

\* the prevalence of a theme if a proportion of 0 were formatted as well
PrevalenceOfPresent(cell) ==
    IF cell.type # "undefined" THEN PercentToFixed1(cell) ELSE NotAvailable

\* t.proportion_percent ? `${(Number(t.proportion_percent) * 100).toFixed(1)}%` : 'N/A'
Prevalence(cell) ==
    IF CellTruthy(cell) THEN PercentToFixed1(cell) ELSE NotAvailable

\* executeQualQuery with the summary of the first summary row taken as it is
ExecuteQualQueryRawOverview(a, question_name) ==
    LET rows == SelectSeq(QualitativeRows(a.qualitativeData), LAMBDA r : r.question = question_name)
        summaries == SelectSeq(rows, LAMBDA r : r.theme = Str("Executive Summary"))
        others == SelectSeq(rows, LAMBDA r : r.theme # Str("Executive Summary"))
    IN  IF Len(rows) = 0 THEN NoQualitativeFound
        ELSE [variable |-> question_name,
              overview |-> IF summaries # <<>> THEN summaries[1].summary ELSE NO_SUMMARY,
              themes |-> [i \in 1..Len(others) |->
                            [theme |-> others[i].theme,
                             prevalence |-> Prevalence(others[i].proportion_percent),
                             insight |-> others[i].summary]]]

\* executeQualQuery
ExecuteQualQuery(a, question_name) ==
    LET rows == SelectSeq(QualitativeRows(a.qualitativeData), LAMBDA r : r.question = question_name)
        summaries == SelectSeq(rows, LAMBDA r : r.theme = Str("Executive Summary"))
        others == SelectSeq(rows, LAMBDA r : r.theme # Str("Executive Summary"))
    IN  IF Len(rows) = 0 THEN NoQualitativeFound
        ELSE [variable |-> question_name,
              overview |-> IF summaries # <<>> /\ Truthy(summaries[1].summary)
                           THEN summaries[1].summary
                           ELSE NO_SUMMARY,
              themes |-> [i \in 1..Len(others) |->
                            [theme |-> others[i].theme,
                             prevalence |-> Prevalence(others[i].proportion_percent),
                             insight |-> others[i].summary]]]

----------------------------------------------------------------------------
(* SurveyAgent: construction and reconfiguration *)

MainModels == {"gemini-2.5-flash", "gemini-3-pro-preview"}
Personas == {"development_economist", "policy_briefing"}

\* the keys of WRITING_PERSONAS and of roleDescriptions
BuiltInPersonas == {"development_economist", "policy_briefing", "data_extractor"}
RolePersonas == BuiltInPersonas \cup {"custom"}

\* keys every object literal inherits from Object.prototype: obj[key] is a
\* function for them, which is truthy and prints as its source in a template
ObjectPrototypeKeys == {"constructor"}
NativeFunction == "function Object() { [native code] }"

\* getWritingStyleGuide: WRITING_PERSONAS[writingStyle] || the default
GetWritingStyleGuide(a) ==
    IF a.writingStyle = "custom" /\ Trim(a.customStyleGuide) # <<>>
    THEN a.customStyleGuide
    ELSE IF a.writingStyle \in BuiltInPersonas
         THEN Str(a.writingStyle)
         ELSE IF a.writingStyle \in ObjectPrototypeKeys
              THEN Str(NativeFunction)
              ELSE Str("development_economist")

\* getRoleDescription: roleDescriptions[writingStyle] || the default
GetRoleDescription(a) ==
    IF a.writingStyle \in RolePersonas
    THEN a.writingStyle
    ELSE IF a.writingStyle \in ObjectPrototypeKeys
         THEN NativeFunction
         ELSE "development_economist"

\* the chat session ai.chats.create returns for agent a: its configuration,
\* the turns that have handed a message to it (none yet), and the number of
\* turns that had reached their first chat send when it was created
CreateChat(a) ==
    [model |-> a.mainModel,
     role |-> GetRoleDescription(a),
     style |-> GetWritingStyleGuide(a),
     enum |-> a.disaggregationValues,
     turns |-> {},
     created |-> IF turn.pc = "selector" THEN log.turns - 1 ELSE log.turns]

\* initAgents without the early return for an empty questionnaire
InitAgentsNoEarlyReturn(a, sid) ==
    [a EXCEPT
        !.validQuestionNames =
            ValidQuestionNames(QuestionnaireRows(a.questionnaire), ResultRows(a.results)),
        !.analysisTimeVariables =
            AnalysisTimeVars(QuestionnaireRows(a.questionnaire), ResultRows(a.results)),
        !.questionContextString =
            QuestionContext(QuestionnaireRows(a.questionnaire), ResultRows(a.results)),
        !.chatSession = sid]

\* initAgents: nothing happens for an empty questionnaire; otherwise the catalog
\* is rebuilt and a new chat session, numbered sid, replaces the old one
InitAgents(a, sid) ==
    IF Len(QuestionnaireRows(a.questionnaire)) = 0 THEN a
    ELSE [a EXCEPT
            !.validQuestionNames =
                ValidQuestionNames(QuestionnaireRows(a.questionnaire), ResultRows(a.results)),
            !.analysisTimeVariables =
                AnalysisTimeVars(QuestionnaireRows(a.questionnaire), ResultRows(a.results)),
            !.questionContextString =
                QuestionContext(QuestionnaireRows(a.questionnaire), ResultRows(a.results)),
            !.chatSession = sid]

\* the sessions after initAgents has run on agent a
SessionsAfterInit(a) ==
    IF Len(QuestionnaireRows(a.questionnaire)) = 0 THEN sessions
    ELSE Append(sessions, CreateChat(a))

\* constructor
NewSurveyAgent(res, qs, qual, mainModel, writingStyle, customStyleGuide) ==
    InitAgents(
        [results |-> res, questionnaire |-> qs, qualitativeData |-> qual,
         chatSession |-> 0, validQuestionNames |-> {}, questionContextString |-> <<>>,
         disaggregationValues |-> ExtractDisaggregationValues(ResultRows(res)),
         analysisTimeVariables |-> <<>>,
         mainModel |-> mainModel, writingStyle |-> writingStyle,
         customStyleGuide |-> customStyleGuide],
        Len(sessions) + 1)

\* updateModel if initAgents did not add the analysis-time variables again
UpdateModelDeclaredOnly(a, mainModel) ==
    [InitAgents([a EXCEPT !.mainModel = mainModel], Len(sessions) + 1)
        EXCEPT !.validQuestionNames = DeclaredNames(QuestionnaireRows(a.questionnaire))]

\* updateModel
UpdateModel(a, mainModel) ==
    InitAgents([a EXCEPT !.mainModel = mainModel], Len(sessions) + 1)

\* updateWritingStyle
UpdateWritingStyle(a, writingStyle, customStyleGuide) ==
    InitAgents([a EXCEPT !.writingStyle = writingStyle,
                         !.customStyleGuide = customStyleGuide],
               Len(sessions) + 1)


----------------------------------------------------------------------------
(* The provider: what the selector call and a chat send can come back with *)

SelectorOutputs ==
    { [kind |-> "error", vars |-> <<>>],         \* generateContent rejects
      [kind |-> "empty", vars |-> <<>>],         \* response.text is empty
      [kind |-> "unparseable", vars |-> <<>>],   \* JSON.parse throws
      [kind |-> "nonarray", vars |-> <<>>],      \* JSON that has no filter method
      [kind |-> "array", vars |-> <<>>],
      [kind |-> "array", vars |-> << Str("q1"), Str("zz") >>],
      [kind |-> "array", vars |-> << Str("n1") >>] }

Call(name, args, id) == [name |-> name, args |-> args, id |-> id]

Args(question_name, disaggregation) ==
    [defined |-> TRUE, question_name |-> question_name,
     disaggregation |-> disaggregation]

\* a function call that carries no args property
NoArgs ==
    [defined |-> FALSE, question_name |-> Undefined, disaggregation |-> Undefined]

\* the batches of function calls a response can carry
Batches ==
    { << Call(QUANT_TOOL_NAME, Args(Str("q1"), Str("gender")), "c1"),
         Call("other_tool", Args(Str("q1"), Undefined), "c2"),
         Call(QUAL_TOOL_NAME, Args(Str("q2"), Undefined), "c3"),
         Call(QUANT_TOOL_NAME, Args(Str("q1"), <<"gender", WS>>), "c6"),
         Call(QUANT_TOOL_NAME, Args(Str("d1"), Str("all")), "c7"),
         Call(QUAL_TOOL_NAME, Args(Str("q3"), Undefined), "c8"),
         Call(QUAL_TOOL_NAME, Args(Str("q1"), Undefined), "c9"),
         Call(QUAL_TOOL_NAME, Args(Str("zz"), Undefined), "c10") >>,
      << Call(QUANT_TOOL_NAME, Args(Str("x1"), Str("all")), "c4"),
         Call("other_tool", NoArgs, "c5") >> }

ResponseTexts == { <<>>, Str("Report") }

ChatResponses ==
    { [kind |-> "error", name |-> n, text |-> <<>>, functionCalls |-> <<>>] :
        n \in {"ApiError", "AbortError"} }
    \cup
    { [kind |-> "ok", name |-> "", text |-> t, functionCalls |-> c] :
        t \in ResponseTexts, c \in Batches \cup {<<>>} }

----------------------------------------------------------------------------
(* Progress callback of handleSend: addTrace and onStepComplete *)

\* addTrace: the id of the new step is its position
AddTrace(traces, stepName) ==
    Append(traces, [stepName |-> stepName, status |-> "loading", subject |-> <<>>])

\* onStepComplete of handleSend's progressCallback
OnStepComplete(traces, traceId, questionName) ==
    [i \in 1..Len(traces) |->
        IF i # traceId THEN traces[i]
        ELSE [stepName |->
                CASE traces[i].stepName = "Identifying variables..." -> "Identified variables"
                  [] traces[i].stepName = "Querying" -> "Queried"
                  [] traces[i].stepName = "Thinking..." -> "Thought"
                  [] OTHER -> "Step completed",
              status |-> "completed",
              subject |-> IF Truthy(questionName) THEN questionName ELSE Str("data")]]

----------------------------------------------------------------------------
(* SurveyAgent.sendMessage, one continuation at a time.  Each operator gives *)
(* what the continuation does as a record: kind "await" (suspended on a chat *)
(* send), "resolve" (returned a result) or "reject" (threw AbortError); why  *)
(* it ended so; the messages it handed to the chat session; and the function *)
(* calls of the round it started to execute.                                 *)

ERROR_TEXT == Str("I encountered an error. Please check your data or try again.")
NO_TEXT == Str("Processed data but no text response generated.")

MAX_LOOPS == 5

\* identifyRelevantQuestions without the filter on validQuestionNames
IdentifyUnfiltered(a, out) ==
    IF out.kind = "array" THEN out.vars ELSE <<>>

\* identifyRelevantQuestions, given what generateContent came back with
IdentifyRelevantQuestions(a, out) ==
    IF out.kind = "array" THEN SeqFilter(out.vars, a.validQuestionNames) ELSE <<>>

\* the message of the first send if the user's text were trimmed
MessageToSendTrimmed(userMessage, relevantVars) ==
    [text |-> Trim(userMessage),
     note |-> IF Len(relevantVars) > 0 THEN "Relevant variables identified"
              ELSE "No direct variables found",
     vars |-> relevantVars]

\* the message of the first send
MessageToSend(userMessage, relevantVars) ==
    [text |-> userMessage,
     note |-> IF Len(relevantVars) > 0 THEN "Relevant variables identified"
              ELSE "No direct variables found",
     vars |-> relevantVars]

Await(t, traces, message, calls) ==
    [kind |-> "await", why |-> "none", turn |-> t, traces |-> traces,
     sent |-> <<message>>, calls |-> calls, text |-> <<>>, dataUsed |-> <<>>]

\* a return that leaves the executed queries out
ReturnNoData(t, traces, text, why) ==
    [kind |-> "resolve", why |-> why, turn |-> t, traces |-> traces,
     sent |-> <<>>, calls |-> <<>>, text |-> text, dataUsed |-> <<>>]

\* return { text, dataUsed, trace }
Return(t, traces, text, why) ==
    [kind |-> "resolve", why |-> why, turn |-> t, traces |-> traces,
     sent |-> <<>>, calls |-> <<>>, text |-> text, dataUsed |-> t.collectedData]

\* a catch block that rethrows whatever it caught
CatchErrorRethrows(t, traces, calls, why) ==
    [kind |-> "reject", why |-> why, turn |-> t, traces |-> traces,
     sent |-> <<>>, calls |-> calls, text |-> <<>>, dataUsed |-> <<>>]

\* the catch block for an error that is no AbortError: return { text }
CatchError(t, traces, calls, why) ==
    [kind |-> "resolve", why |-> why, turn |-> t, traces |-> traces,
     sent |-> <<>>, calls |-> calls, text |-> ERROR_TEXT, dataUsed |-> <<>>]

\* the catch block for an AbortError: rethrown
Rethrow(t, traces, sent, calls, why) ==
    [kind |-> "reject", why |-> why, turn |-> t, traces |-> traces,
     sent |-> sent, calls |-> calls, text |-> <<>>, dataUsed |-> <<>>]

\* sendMessage without the check of the signal after identifyRelevantQuestions
NoCheckAfterSelector(t) == FALSE

\* the check of the signal after identifyRelevantQuestions
AbortedAfterSelector(t) == t.aborted

\* Promise.race of a chat send with the abort promise: the send has been
\* issued; an already aborted signal rejects at once
RaceSend(t, traces, message, calls) ==
    IF t.aborted THEN Rethrow(t, traces, <<message>>, calls, "signal")
    ELSE Await(t, traces, message, calls)

\* sendMessage if identifyRelevantQuestions had no try/catch of its own
AfterSelectorPropagates(a, t, traces, out) ==
    LET relevantVars == IdentifyRelevantQuestions(a, out)
        tr == OnStepComplete(traces, t.varTraceId, <<>>)
        t1 == [t EXCEPT !.relevantVars = relevantVars, !.pc = "chat", !.first = TRUE]
    IN  IF out.kind # "array" THEN CatchError(t1, traces, <<>>, "selector-failed")
        ELSE IF AbortedAfterSelector(t) THEN Rethrow(t1, tr, <<>>, <<>>, "signal")
        ELSE IF a.chatSession = 0 THEN CatchError(t1, tr, <<>>, "no-session")
        ELSE RaceSend(t1, tr, MessageToSend(t.userText, relevantVars), <<>>)

\* from the selector's answer to the first chat send
AfterSelector(a, t, traces, out) ==
    LET relevantVars == IdentifyRelevantQuestions(a, out)
        tr == OnStepComplete(traces, t.varTraceId, <<>>)
        t1 == [t EXCEPT !.relevantVars = relevantVars, !.pc = "chat", !.first = TRUE]
    IN  IF AbortedAfterSelector(t) THEN Rethrow(t1, tr, <<>>, <<>>, "signal")
        ELSE IF a.chatSession = 0 THEN CatchError(t1, tr, <<>>, "no-session")
        ELSE RaceSend(t1, tr, MessageToSend(t.userText, relevantVars), <<>>)

FunctionResponse(call, result) ==
    [name |-> call.name, response |-> result, id |-> call.id]

RECURSIVE ExecuteCalls(_, _, _)
\* the for loop over the function calls of one round, from state st
\* (parts, collectedData, traces); st.threw is set where the body throws
ExecuteCalls(a, calls, st) ==
    IF calls = <<>> \/ st.threw THEN st
    ELSE LET call == Head(calls)
             args == call.args
         IN  IF ~args.defined
             THEN [st EXCEPT !.threw = TRUE]   \* args.question_name of undefined
             ELSE IF call.name = QUANT_TOOL_NAME
             THEN LET result == ExecuteQuantQuery(a, args.question_name, args.disaggregation)
                      id == Len(st.traces) + 1
                  IN  ExecuteCalls(a, Tail(calls),
                        [st EXCEPT
                           !.collectedData = Append(@, [query |-> args, result |-> result,
                                                        type |-> "Quantitative"]),
                           !.traces = OnStepComplete(AddTrace(@, "Querying"), id,
                                                     args.question_name),
                           !.parts = Append(@, FunctionResponse(call, result))])
             ELSE IF call.name = QUAL_TOOL_NAME
             THEN LET result == ExecuteQualQuery(a, args.question_name)
                      id == Len(st.traces) + 1
                  IN  ExecuteCalls(a, Tail(calls),
                        [st EXCEPT
                           !.collectedData = Append(@, [query |-> args, result |-> result,
                                                        type |-> "Qualitative"]),
                           !.traces = OnStepComplete(AddTrace(@, "Querying"), id,
                                                     args.question_name),
                           !.parts = Append(@, FunctionResponse(call, result))])
             ELSE ExecuteCalls(a, Tail(calls),
                        [st EXCEPT
                           !.parts = Append(@, FunctionResponse(call, Str("Unknown tool")))])

\* the loop and a return of response.text as it is, without the fallback text
ToolLoopRawText(a, t, traces, response) ==
    IF response.functionCalls # <<>> /\ t.maxLoops > 0
    THEN LET calls == response.functionCalls
             st == ExecuteCalls(a, calls,
                     [parts |-> <<>>, collectedData |-> t.collectedData,
                      traces |-> traces, threw |-> FALSE])
             t1 == [t EXCEPT !.collectedData = st.collectedData, !.first = FALSE,
                             !.thinkingTraceId = Len(st.traces) + 1]
         IN  IF st.threw THEN CatchError(t1, st.traces, calls, "loop-threw")
             ELSE IF a.chatSession = 0
             THEN CatchError(t1, AddTrace(st.traces, "Thinking..."), calls, "no-session")
             ELSE RaceSend(t1, AddTrace(st.traces, "Thinking..."), st.parts, calls)
    ELSE Return(t, traces, response.text,
                IF response.functionCalls # <<>> THEN "exhausted" ELSE "returned")

\* the while loop from its condition on: one more round, or the return
ToolLoop(a, t, traces, response) ==
    IF response.functionCalls # <<>> /\ t.maxLoops > 0
    THEN LET calls == response.functionCalls
             st == ExecuteCalls(a, calls,
                     [parts |-> <<>>, collectedData |-> t.collectedData,
                      traces |-> traces, threw |-> FALSE])
             t1 == [t EXCEPT !.collectedData = st.collectedData, !.first = FALSE,
                             !.thinkingTraceId = Len(st.traces) + 1]
         IN  IF st.threw THEN CatchError(t1, st.traces, calls, "loop-threw")
             ELSE IF a.chatSession = 0
             THEN CatchError(t1, AddTrace(st.traces, "Thinking..."), calls, "no-session")
             ELSE RaceSend(t1, AddTrace(st.traces, "Thinking..."), st.parts, calls)
    ELSE Return(t, traces, IF Truthy(response.text) THEN response.text ELSE NO_TEXT,
                IF response.functionCalls # <<>> THEN "exhausted" ELSE "returned")

\* sendMessage if a failed first send were issued once more
AfterChatRetry(a, t, traces, response) ==
    IF response.kind = "error"
    THEN IF response.name = "AbortError"
         THEN Rethrow(t, traces, <<>>, <<>>, "provider-abort")
         ELSE IF t.first
         THEN RaceSend(t, traces, MessageToSend(t.userText, t.relevantVars), <<>>)
         ELSE CatchError(t, traces, <<>>, "chat-failed")
    ELSE IF t.first
    THEN ToolLoop(a, [t EXCEPT !.maxLoops = MAX_LOOPS, !.collectedData = <<>>],
                  traces, response)
    ELSE ToolLoop(a, [t EXCEPT !.maxLoops = @ - 1],
                  OnStepComplete(traces, t.thinkingTraceId, <<>>), response)

\* the loop without maxLoops--
AfterChatNoDecrement(a, t, traces, response) ==
    IF response.kind = "error"
    THEN IF response.name = "AbortError"
         THEN Rethrow(t, traces, <<>>, <<>>, "provider-abort")
         ELSE CatchError(t, traces, <<>>, "chat-failed")
    ELSE IF t.first
    THEN ToolLoop(a, [t EXCEPT !.maxLoops = MAX_LOOPS, !.collectedData = <<>>],
                  traces, response)
    ELSE ToolLoop(a, t, OnStepComplete(traces, t.thinkingTraceId, <<>>), response)

\* from a chat response to the next chat send or to the return
AfterChat(a, t, traces, response) ==
    IF response.kind = "error"
    THEN IF response.name = "AbortError"
         THEN Rethrow(t, traces, <<>>, <<>>, "provider-abort")
         ELSE CatchError(t, traces, <<>>, "chat-failed")
    ELSE IF t.first
    THEN ToolLoop(a, [t EXCEPT !.maxLoops = MAX_LOOPS, !.collectedData = <<>>],
                  traces, response)
    ELSE ToolLoop(a, [t EXCEPT !.maxLoops = @ - 1],
                  OnStepComplete(traces, t.thinkingTraceId, <<>>), response)

----------------------------------------------------------------------------
(* The App component *)

UserTexts == { <<>>, <<WS>>, <<"a", WS>> }

IdleTurn ==
    [pc |-> "idle", id |-> 0, userText |-> <<>>, agent |-> 0, aborted |-> FALSE,
     relevantVars |-> <<>>, first |-> FALSE, maxLoops |-> 0,
     collectedData |-> <<>>, varTraceId |-> 0, thinkingTraceId |-> 0]

\* bookkeeping: the budget left, the turns started, the chat sends and tool
\* rounds of the turn in flight, whether its selector call failed, how and where
\* the last turn ended, the last message handed to a chat session, the
\* function calls the last continuation started to execute, the calls of the
\* two query tools the turn in flight has executed in the rounds it has sent,
\* the text of the response on which the last turn returned, and the text and the
\* list of executed queries the last turn returned, and whether the chat send
\* that came back last had failed, and the number of turns that had been started
\* when the chat was last cleared
NewLog(budget) ==
    [budget |-> budget, turns |-> 0, sends |-> 0, rounds |-> 0, selector |-> "none",
     outcome |-> "none", point |-> "none", lastSent |-> <<>>, requested |-> <<>>,
     executed |-> <<>>, lastText |-> <<>>, text |-> <<>>, dataUsed |-> <<>>,
     failed |-> FALSE, cleared |-> 0]

UserMessage(text, id) ==
    [role |-> "user", content |-> text, turn |-> id, traces |-> <<>>]

ModelMessage(text, id, traces) ==
    [role |-> "model", content |-> text, turn |-> id, traces |-> traces]

SystemMessage(text, traces) ==
    [role |-> "system", content |-> text, turn |-> 0, traces |-> traces]

\* addMessage
AddMessage(msgs, msg) == Append(msgs, msg)

\* prev.slice(0, -1)
SliceLast(msgs) == IF msgs = <<>> THEN <<>> ELSE SubSeq(msgs, 1, Len(msgs) - 1)

\* the traces the constructor reports through initProgressCallback
InitTraces(qs) ==
    << [stepName |-> "Identified disaggregation levels", status |-> "completed",
        subject |-> <<>>] >>
    \o IF Len(QuestionnaireRows(qs)) = 0 THEN <<>>
       ELSE << [stepName |-> "Identified analysis-time variables",
                status |-> "completed", subject |-> <<>>] >>

\* the effect that creates the agent once both files are loaded and no agent
\* exists; qs, res, qual and msgs are the state the effect runs in
AgentInitEffect(qs, res, qual, msgs, agentNow) ==
    IF qs # NoFile /\ res # NoFile /\ agentNow = 0
    THEN LET a == NewSurveyAgent(res, qs, qual,
                                 selectedModel, selectedPersona, <<>>)
         IN  /\ agents' = Append(agents, a)
             /\ agent' = Len(agents) + 1
             /\ sessions' = SessionsAfterInit(a)
             /\ messages' = AddMessage(msgs, SystemMessage(Str("I'm ready!"), InitTraces(qs)))
    ELSE /\ agents' = agents
         /\ agent' = agentNow
         /\ sessions' = sessions
         /\ messages' = msgs

\* handleFileSelect(QUESTIONNAIRE)
UploadQuestionnaire(qs) ==
    /\ questionnaire = NoFile
    /\ questionnaire' = qs
    /\ AgentInitEffect(qs, results, qualitativeData, messages, agent)
    /\ UNCHANGED << results, qualitativeData, input, isProcessing, abortController,
                    progressiveTraces, selectedModel, selectedPersona, turn, log >>

\* handleFileSelect(RESULTS)
UploadResults(res) ==
    /\ res \in log.budget.workbooks
    /\ results = NoFile \/ (log.budget.reloads > 0 /\ res # results)
    /\ results' = res
    /\ qualitativeData' = QualitativeOf(res)
    /\ AgentInitEffect(questionnaire, res, QualitativeOf(res), messages, agent)
    /\ log' = IF results = NoFile THEN log
              ELSE [log EXCEPT !.budget.reloads = @ - 1]
    /\ UNCHANGED << questionnaire, input, isProcessing, abortController,
                    progressiveTraces, selectedModel, selectedPersona, turn >>

\* onChange of the input box
SetInput(text) ==
    /\ text # input
    /\ input' = text
    /\ UNCHANGED << questionnaire, results, qualitativeData, messages, isProcessing,
                    agent, abortController, progressiveTraces, selectedModel,
                    selectedPersona, agents, turn, sessions, log >>

\* the guard of handleSend without isProcessing
CanSendWhileProcessing == Trim(input) # <<>> /\ agent # 0

\* the guard of handleSend
CanSend == Trim(input) # <<>> /\ agent # 0 /\ ~isProcessing

\* handleSend up to the await of the selector call inside agent.sendMessage
HandleSend ==
    /\ CanSend
    /\ log.turns < log.budget.turns
    /\ input' = <<>>
    /\ isProcessing' = TRUE
    /\ abortController' = log.turns + 1
    /\ messages' = AddMessage(messages, UserMessage(input, log.turns + 1))
    /\ progressiveTraces' = AddTrace(progressiveTraces, "Identifying variables...")
    /\ turn' = [IdleTurn EXCEPT !.pc = "selector", !.id = log.turns + 1,
                                !.userText = input, !.agent = agent,
                                !.varTraceId = Len(progressiveTraces) + 1]
    /\ log' = [log EXCEPT !.turns = @ + 1, !.sends = 0, !.rounds = 0,
                          !.selector = "none", !.outcome = "none", !.point = "none",
                          !.lastSent = <<>>, !.requested = <<>>,
                          !.executed = <<>>, !.lastText = <<>>,
                          !.text = <<>>, !.dataUsed = <<>>, !.failed = FALSE]
    /\ UNCHANGED << questionnaire, results, qualitativeData, agent, selectedModel,
                    selectedPersona, agents, sessions >>

\* handleSend without the finally block
HandleSendResolvedNoFinally(text, traces) ==
    /\ messages' = AddMessage(messages, ModelMessage(text, turn.id, traces))
    /\ progressiveTraces' = <<>>
    /\ input' = input
    /\ isProcessing' = isProcessing
    /\ abortController' = abortController

\* handleSend after agent.sendMessage resolved, without clearTraces()
HandleSendResolvedKeepsTraces(text, traces) ==
    /\ messages' = AddMessage(messages, ModelMessage(text, turn.id, traces))
    /\ progressiveTraces' = traces
    /\ input' = input
    /\ isProcessing' = FALSE
    /\ abortController' = 0

\* handleSend after agent.sendMessage resolved: the assistant message
HandleSendResolved(text, traces) ==
    /\ messages' = AddMessage(messages, ModelMessage(text, turn.id, traces))
    /\ progressiveTraces' = <<>>
    /\ input' = input
    /\ isProcessing' = FALSE
    /\ abortController' = 0

\* the AbortError branch without setInput(userText)
HandleSendAbortedInputLost ==
    /\ messages' = SliceLast(messages)
    /\ input' = input
    /\ progressiveTraces' = <<>>
    /\ isProcessing' = FALSE
    /\ abortController' = 0

\* handleSend after agent.sendMessage rejected with AbortError
HandleSendAborted ==
    /\ messages' = SliceLast(messages)
    /\ input' = turn.userText
    /\ progressiveTraces' = <<>>
    /\ isProcessing' = FALSE
    /\ abortController' = 0

\* where the turn was suspended
Point == IF turn.pc = "selector" THEN "selector"
         ELSE IF turn.first THEN "first" ELSE "followup"

\* one continuation of sendMessage, r, carried through to handleSend
Continue(r, requested, selector, lastText, failed) ==
    /\ log' = [log EXCEPT
                 !.budget.toolResponses = @ - requested,
                 !.sends = IF r.sent # <<>> THEN @ + 1
                           ELSE IF r.kind = "await" THEN @ ELSE 0,
                 !.rounds = IF r.sent # <<>> /\ ~r.turn.first THEN @ + 1
                            ELSE IF r.kind = "await" THEN @ ELSE 0,
                 !.lastSent = IF r.sent # <<>>
                              THEN << [session |-> agents[turn.agent].chatSession,
                                       message |-> r.sent[1]] >>
                              ELSE <<>>,
                 !.requested = r.calls,
                 !.executed = IF r.kind = "await"
                              THEN @ \o SelectSeq(r.calls, LAMBDA c :
                                           c.name \in {QUANT_TOOL_NAME, QUAL_TOOL_NAME})
                              ELSE <<>>,
                 !.lastText = IF r.why \in {"returned", "exhausted"} THEN lastText ELSE <<>>,
                 !.text = r.text,
                 !.dataUsed = r.dataUsed,
                 !.selector = selector,
                 !.failed = failed,
                 !.point = IF r.kind = "await" THEN "none" ELSE Point,
                 !.outcome = r.why]
    /\ CASE r.kind = "await" ->
              /\ turn' = r.turn
              /\ progressiveTraces' = r.traces
              /\ UNCHANGED << messages, input, isProcessing, abortController >>
         [] r.kind = "resolve" ->
              /\ turn' = IdleTurn
              /\ HandleSendResolved(r.text, r.traces)
         [] OTHER ->
              /\ turn' = IdleTurn
              /\ HandleSendAborted
    /\ sessions' = IF r.sent # <<>>
                   THEN [sessions EXCEPT ![agents[turn.agent].chatSession].turns =
                                                @ \cup {turn.id}]
                   ELSE sessions
    /\ UNCHANGED << questionnaire, results, qualitativeData, agent, selectedModel,
                    selectedPersona, agents >>

\* the selector call comes back
SelectorResponds(out) ==
    /\ turn.pc = "selector"
    /\ Continue(AfterSelector(agents[turn.agent], turn, progressiveTraces, out), 0,
                IF out.kind = "array" THEN "answered" ELSE "failed", <<>>, FALSE)

\* a chat send comes back
ChatResponds(response) ==
    /\ turn.pc = "chat"
    /\ response.functionCalls # <<>> => log.budget.toolResponses > 0
    /\ Continue(AfterChat(agents[turn.agent], turn, progressiveTraces, response),
                IF response.functionCalls # <<>> THEN 1 ELSE 0, log.selector,
                response.text, response.kind = "error")

\* handleCancel: abort() sets the signal and runs its listeners; a turn
\* suspended in a race with the abort promise is rejected at once
HandleCancel ==
    /\ isProcessing
    /\ abortController # 0
    /\ abortController = turn.id
    /\ IF turn.pc = "chat"
       THEN Continue(Rethrow([turn EXCEPT !.aborted = TRUE], progressiveTraces,
                             <<>>, <<>>, "signal"), 0, log.selector, <<>>, FALSE)
       ELSE /\ ~turn.aborted
            /\ turn' = [turn EXCEPT !.aborted = TRUE]
            /\ UNCHANGED << questionnaire, results, qualitativeData, messages, input,
                            isProcessing, agent, abortController, progressiveTraces,
                            selectedModel, selectedPersona, agents, sessions, log >>

\* the model selector and the effect on selectedModel
ChangeModel(m) ==
    /\ m # selectedModel
    /\ log.budget.notices > 0
    /\ selectedModel' = m
    /\ IF agent # 0
       THEN /\ agents' = [agents EXCEPT ![agent] = UpdateModel(@, m)]
            /\ sessions' = SessionsAfterInit(UpdateModel(agents[agent], m))
            /\ messages' = AddMessage(messages,
                               SystemMessage(<<"AI model updated to: ", m>>, <<>>))
       ELSE UNCHANGED << agents, sessions, messages >>
    /\ log' = [log EXCEPT !.budget.notices = @ - 1]
    /\ UNCHANGED << questionnaire, results, qualitativeData, input, isProcessing,
                    agent, abortController, progressiveTraces, selectedPersona, turn >>

\* the persona selector (built-in personas) and the effect on selectedPersona
ChangePersona(p) ==
    /\ p # selectedPersona
    /\ log.budget.notices > 0
    /\ selectedPersona' = p
    /\ IF agent # 0
       THEN /\ agents' = [agents EXCEPT ![agent] = UpdateWritingStyle(@, p, <<>>)]
            /\ sessions' = SessionsAfterInit(UpdateWritingStyle(agents[agent], p, <<>>))
            /\ messages' = AddMessage(messages,
                               SystemMessage(<<"Writing style updated to: ", p>>, <<>>))
       ELSE UNCHANGED << agents, sessions, messages >>
    /\ log' = [log EXCEPT !.budget.notices = @ - 1]
    /\ UNCHANGED << questionnaire, results, qualitativeData, input, isProcessing,
                    agent, abortController, progressiveTraces, selectedModel, turn >>

\* the Clear Chat History button, and the agent-initialisation effect it triggers
ClearChat ==
    /\ agent # 0
    /\ questionnaire # NoFile /\ results # NoFile
    /\ log.budget.clears > 0
    /\ AgentInitEffect(questionnaire, results, qualitativeData, <<>>, 0)
    /\ log' = [log EXCEPT !.budget.clears = @ - 1, !.cleared = log.turns]
    /\ UNCHANGED << questionnaire, results, qualitativeData, input, isProcessing,
                    abortController, progressiveTraces, selectedModel,
                    selectedPersona, turn >>

----------------------------------------------------------------------------
(* The specification *)

Init ==
    /\ questionnaire = NoFile
    /\ results = NoFile
    /\ qualitativeData = NoFile
    /\ messages = <<>>
    /\ input = <<>>
    /\ isProcessing = FALSE
    /\ agent = 0
    /\ abortController = 0
    /\ progressiveTraces = <<>>
    /\ selectedModel = "gemini-2.5-flash"
    /\ selectedPersona = "development_economist"
    /\ agents = <<>>
    /\ turn = IdleTurn
    /\ sessions = <<>>
    /\ \E budget \in Budgets : log = NewLog(budget)

Next ==
    \/ \E qs \in QuestionnaireFiles : UploadQuestionnaire(qs)
    \/ \E res \in ResultsFiles : UploadResults(res)
    \/ \E text \in UserTexts : SetInput(text)
    \/ HandleSend
    \/ \E out \in SelectorOutputs : SelectorResponds(out)
    \/ \E response \in ChatResponses : ChatResponds(response)
    \/ HandleCancel
    \/ \E m \in MainModels : ChangeModel(m)
    \/ \E p \in Personas : ChangePersona(p)
    \/ ClearChat

Spec == Init /\ [][Next]_vars

\* the provider answers every call that is outstanding
FairSpec ==
    /\ Spec
    /\ WF_vars(\E out \in SelectorOutputs : SelectorResponds(out))
    /\ WF_vars(\E response \in ChatResponses : ChatResponds(response))

----------------------------------------------------------------------------
(* Properties *)

\* a step that ends the turn in flight
TurnEnds == turn.pc # "idle" /\ turn'.pc = "idle"

\* a step in which the cancellation signal of the turn in flight is set
SignalSet ==
    /\ turn.pc # "idle" /\ ~turn.aborted
    /\ turn'.aborted \/ (turn'.pc = "idle" /\ log'.outcome = "signal")

\* a step that hands a message to a chat session
SendIssued == log'.sends > log.sends

\* the messages of msgs that do not belong to turn id
WithoutTurn(msgs, id) == SelectSeq(msgs, LAMBDA m : m.turn # id)

\* the assistant messages of turn id in msgs
ModelMessagesOf(msgs, id) ==
    { i \in 1..Len(msgs) : msgs[i].role = "model" /\ msgs[i].turn = id }

\* C1: a turn runs at most five tool rounds and hands at most six messages to
\* the chat session, and it ends, also when every response of the model asks
\* for another tool call.
C1_BoundedToolRounds ==
    /\ [](log.rounds <= 5 /\ log.sends <= 6)
    /\ [](isProcessing => <>(~isProcessing))

\* a turn whose every response asked for tools has returned after round five
C1_Witness == log.outcome = "exhausted" /\ log.point = "followup" /\ ~isProcessing

\* C2: cancelling a turn after the selector step and before the first chat
\* response leaves the message list without any message of the turn and with
\* every other message (the list as it was before the turn, when nothing else
\* was appended meanwhile), and the input box holds the turn's text verbatim.
C2_CancelBeforeFirstResponse ==
    [][ (TurnEnds /\ turn.pc = "chat" /\ turn.first /\ log'.outcome = "signal")
        => /\ messages' = WithoutTurn(messages, turn.id)
           /\ input' = turn.userText ]_vars

\* C3: when a cancelled turn ends, no assistant message of the turn is in the
\* list, the input box holds the turn's text, and the progress trace is empty.
C3_CancelledTurn ==
    [][ (TurnEnds /\ log'.outcome \in {"signal", "provider-abort"})
        => /\ ModelMessagesOf(messages', turn.id) = {}
           /\ input' = turn.userText
           /\ progressiveTraces' = <<>> ]_vars

\* a turn cancelled while a follow-up send was outstanding, after tool rounds
\* left their traces; the text with its trailing blank is back in the box
C3_Witness ==
    /\ log.outcome = "signal" /\ log.point = "followup"
    /\ input = <<"a", WS>> /\ progressiveTraces = <<>> /\ ~isProcessing

\* C4: setting the cancellation signal while a provider call is outstanding
\* (selector call, first chat send or follow-up send) ends the turn with the
\* cancellation outcome in the same step, without waiting for the response.
C4_CancelWinsEveryCall ==
    [][ SignalSet => /\ turn'.pc = "idle"
                     /\ log'.outcome = "signal"
                     /\ ~isProcessing' ]_vars

\* C5: once the cancellation signal of a turn is set, no message is handed to
\* the chat session for that turn: neither in the step that sets the signal
\* nor in any later step of the turn.
C5_NoSendAfterSignal ==
    [][ (turn.aborted \/ SignalSet) => ~SendIssued ]_vars

\* a turn cancelled during the selector call has ended, cancelled, after the
\* selector answered, and no message went to the chat session
C5_Witness ==
    /\ log.outcome = "signal" /\ log.point = "selector"
    /\ log.selector # "none" /\ log.sends = 0 /\ log.lastSent = <<>>

\* C6: at most one turn is in flight: isProcessing is set exactly while a turn
\* is in flight, and while it is set no turn starts, no user message is
\* appended and no provider call is issued on behalf of a new turn.
C6_OneTurnInFlight ==
    /\ [](isProcessing <=> turn.pc # "idle")
    /\ [][ isProcessing => /\ log'.turns = log.turns
                           /\ turn'.id \in {turn.id, 0}
                           /\ ~(turn'.pc = "selector" /\ turn.pc # "selector")
                           /\ { i \in 1..Len(messages') : messages'[i].role = "user" }
                                \subseteq
                              { i \in 1..Len(messages) : messages[i].role = "user" } ]_vars

\* a turn is in flight and the input box holds text to send
C6_Witness ==
    /\ isProcessing /\ turn.pc = "chat" /\ agent # 0
    /\ Trim(input) # <<>> /\ log.turns < log.budget.turns

\* C7: a chat-session call that fails with an error other than AbortError ends
\* the turn with exactly one assistant message, the error text, appended at
\* the end of the list (after the user's message), and with isProcessing,
\* the abort controller and the progress trace reset.
C7_ChatFailure ==
    [][ (TurnEnds /\ log'.outcome = "chat-failed")
        => /\ Len(messages') = Len(messages) + 1
           /\ SubSeq(messages', 1, Len(messages)) = messages
           /\ messages'[Len(messages')].role = "model"
           /\ messages'[Len(messages')].content = ERROR_TEXT
           /\ ModelMessagesOf(messages', turn.id) = {Len(messages')}
           /\ \A i \in 1..Len(messages') :
                 (messages'[i].role = "user" /\ messages'[i].turn = turn.id)
                    => i < Len(messages')
           /\ ~isProcessing'
           /\ abortController' = 0
           /\ progressiveTraces' = <<>> ]_vars

\* a follow-up send has failed and the error text is the last message
C7_Witness ==
    /\ log.outcome = "chat-failed" /\ log.point = "followup"
    /\ messages # <<>> /\ messages[Len(messages)].content = ERROR_TEXT

\* C8: the variables the selector step returns, and the first message carries,
\* are all valid question names of the agent.
C8_SelectorFiltered ==
    turn.pc = "chat" =>
        /\ Range(turn.relevantVars) \subseteq agents[turn.agent].validQuestionNames
        /\ turn.first => log.lastSent[1].message.vars = turn.relevantVars

\* the selector answered [q1, zz], the only answer that yields q1: zz, which is
\* no valid name, was dropped
C8_Witness ==
    /\ turn.pc = "chat" /\ turn.first /\ log.selector = "answered"
    /\ turn.relevantVars = << Str("q1") >>

\* C9: a selector call that fails (provider error, empty text, text that is no
\* JSON, JSON that is no array) yields the empty list and does not end the
\* turn: unless the turn was cancelled meanwhile or the agent has no chat
\* session, the first message goes out with the note that no variables were
\* found.
C9_SelectorFailureContinues ==
    /\ []( (log.selector = "failed" /\ turn.pc = "chat")
           => /\ turn.relevantVars = <<>>
              /\ turn.first => log.lastSent[1].message =
                                  [text |-> turn.userText,
                                   note |-> "No direct variables found",
                                   vars |-> <<>>] )
    /\ [][ ( /\ turn.pc = "selector" /\ log'.selector = "failed"
             /\ ~turn.aborted /\ agents[turn.agent].chatSession # 0 )
           => /\ turn'.pc = "chat" /\ turn'.first
              /\ log'.outcome = "none"
              /\ isProcessing' ]_vars

\* the selector call failed and the first message is on its way
C9_Witness ==
    /\ log.selector = "failed" /\ turn.pc = "chat" /\ turn.first
    /\ log.sends = 1 /\ isProcessing

\* C10: every call of an unknown tool in a round, whatever its arguments, is
\* answered by a function response with the payload "Unknown tool", the name
\* and the id of the call; the turn does not fail and the responses of the
\* round are sent.
C10_UnknownToolAnswered ==
    \A i \in 1..Len(log.requested) :
        log.requested[i].name \notin {QUANT_TOOL_NAME, QUAL_TOOL_NAME}
        => /\ turn.pc = "chat" /\ ~turn.first
           /\ log.outcome = "none"
           /\ Len(log.lastSent) = 1
           /\ Len(log.lastSent[1].message) = Len(log.requested)
           /\ log.lastSent[1].message[i] =
                 FunctionResponse(log.requested[i], Str("Unknown tool"))

\* a step in which a response that asks for tools starts a tool round
RoundStarted ==
    /\ turn.pc = "chat"
    /\ log'.requested # <<>>
    /\ log'.budget.toolResponses = log.budget.toolResponses - 1

\* C11: every tool round hands exactly one message to the chat session, made
\* after all calls of the round have run: one function response per requested
\* call, in request order, each with the name and the id of its call.
C11_OneResponsePerCall ==
    [][ RoundStarted
        => /\ turn'.pc = "chat"
           /\ log'.sends = log.sends + 1
           /\ Len(log'.lastSent) = 1
           /\ Len(log'.lastSent[1].message) = Len(log'.requested)
           /\ \A i \in 1..Len(log'.requested) :
                 /\ log'.lastSent[1].message[i].name = log'.requested[i].name
                 /\ log'.lastSent[1].message[i].id = log'.requested[i].id ]_vars

\* C12: a turn that completes normally returns one entry per executed call of
\* the quantitative or the qualitative tool, in execution order over all
\* rounds, tagged by the tool that was called and carrying the call's arguments.
C12_ExecutedQueries ==
    [][ (TurnEnds /\ log'.outcome \in {"returned", "exhausted"})
        => /\ Len(log'.dataUsed) = Len(log.executed)
           /\ \A i \in 1..Len(log.executed) :
                 /\ log'.dataUsed[i].query = log.executed[i].args
                 /\ log'.dataUsed[i].type =
                       IF log.executed[i].name = QUANT_TOOL_NAME
                       THEN "Quantitative" ELSE "Qualitative" ]_vars

\* a turn has returned after two rounds of seven queries and one unknown call
C12_Witness ==
    /\ log.outcome = "returned" /\ Len(log.dataUsed) = 14
    /\ log.dataUsed[1].type = "Quantitative" /\ log.dataUsed[2].type = "Qualitative"

\* C13 as stated: when the budget of five rounds is exhausted while the model
\* still asks for tools, the turn returns the text of the last response, also
\* when that text is empty.
C13_ExhaustedReturnsLastText ==
    log.outcome = "exhausted" => log.text = log.lastText

\* C13 amended: when the budget of five rounds is exhausted while the model
\* still asks for tools, the turn returns a normal result, not the error text
\* and not an abort: the text of the last response, or the fixed fallback text
\* when the last response has no text; the returned text is never empty.
C13_ExhaustedReturnsTextOrFallback ==
    log.outcome = "exhausted"
    => /\ log.text = (IF log.lastText # <<>> THEN log.lastText ELSE NO_TEXT)
       /\ log.text # <<>> /\ log.text # ERROR_TEXT
       /\ log.point = "followup"

\* the budget was exhausted by a last response without text
C13_Witness ==
    /\ log.outcome = "exhausted" /\ log.lastText = <<>> /\ log.text = NO_TEXT

\* a step in which updateModel or updateWritingStyle runs on an agent that
\* has a chat session
UpdateStep ==
    /\ selectedModel' # selectedModel \/ selectedPersona' # selectedPersona
    /\ agent # 0 /\ agents[agent].chatSession # 0

\* a step in which the first message of a turn is handed to a chat session
FirstSendStep ==
    turn.pc = "selector" /\ turn'.pc = "chat" /\ log'.lastSent # <<>>

\* session sid is configured with the model, the role and the style guide of a
SeededFrom(session, a) ==
    /\ session.model = a.mainModel
    /\ session.role = a.writingStyle
    /\ session.style = Str(a.writingStyle)

\* C14: updateModel and updateWritingStyle on an agent with a chat session
\* create a new session, without messages, seeded with the model, the role
\* description and the style guide now selected; and the first message of every
\* turn goes to the current session of its agent, seeded with the agent's
\* configuration and holding no message of a turn that was sending to a chat
\* session before this session was created.
C14_NextTurnNewSession ==
    /\ [][ UpdateStep
           => LET sid == agents'[agent].chatSession
              IN  /\ sid = Len(sessions) + 1 /\ Len(sessions') = sid
                  /\ sessions'[sid].turns = {}
                  /\ sessions'[sid].model = selectedModel'
                  /\ sessions'[sid].role = selectedPersona'
                  /\ SeededFrom(sessions'[sid], agents'[agent]) ]_vars
    /\ [][ FirstSendStep
           => LET sid == agents[turn.agent].chatSession
              IN  /\ log'.lastSent[1].session = sid
                  /\ SeededFrom(sessions[sid], agents[turn.agent])
                  /\ \A k \in sessions[sid].turns : k > sessions[sid].created ]_vars

\* C15: updateModel and updateWritingStyle leave the three row collections,
\* the valid question names, the analysis-time variables and the
\* disaggregation values of the agent unchanged.
C15_UpdateFrame ==
    [][ ((selectedModel' # selectedModel \/ selectedPersona' # selectedPersona)
            /\ agent # 0)
        => /\ agent' = agent
           /\ agents'[agent].results = agents[agent].results
           /\ agents'[agent].questionnaire = agents[agent].questionnaire
           /\ agents'[agent].qualitativeData = agents[agent].qualitativeData
           /\ agents'[agent].validQuestionNames = agents[agent].validQuestionNames
           /\ agents'[agent].analysisTimeVariables = agents[agent].analysisTimeVariables
           /\ agents'[agent].disaggregationValues = agents[agent].disaggregationValues
           /\ \A i \in 1..Len(agents) : i # agent => agents'[i] = agents[i] ]_vars

\* an agent with declared and analysis-time variables has been reconfigured
C15_Witness ==
    /\ agent # 0 /\ agents[agent].chatSession > 1
    /\ agents[agent].analysisTimeVariables # <<>>
    /\ Str("q1") \in agents[agent].validQuestionNames
    /\ agents[agent].disaggregationValues # <<>>
    /\ selectedModel # "gemini-2.5-flash" \/ selectedPersona # "development_economist"

\* the agents constructed so far
Agents == { agents[i] : i \in 1..Len(agents) }

\* the lines of the context block of agent a that name variable n
ContextLines(a, n) ==
    { j \in 1..Len(a.questionContextString) : a.questionContextString[j].variable = n }

\* the type of questionnaire row q, lower-cased and trimmed
NormalizedType(q) == Trim(ToLowerCase(IF Truthy(q.type) THEN q.type ELSE <<>>))

\* C16: for every questionnaire row with a name and a recognised type, the
\* name is a valid name, the context block has exactly one line for the name,
\* and that line is tagged qualitative exactly when the normalised type of the
\* row is "text".
C16_OneEntryPerName ==
    \A a \in Agents :
        LET qs == QuestionnaireRows(a.questionnaire)
        IN  \A i \in 1..Len(qs) :
               IsRelevantQuestion(qs[i])
               => /\ Trim(qs[i].name) \in a.validQuestionNames
                  /\ Cardinality(ContextLines(a, Trim(qs[i].name))) = 1
                  /\ \A j \in ContextLines(a, Trim(qs[i].name)) :
                        (a.questionContextString[j].toolHint = "[QUALITATIVE]")
                           <=> (NormalizedType(qs[i]) = Str("text"))

\* the names of all rows of a questionnaire
QuestionnaireNames(qs) ==
    { Trim(qs[i].name) : i \in { j \in 1..Len(qs) : Truthy(qs[j].name) } }

\* the catalog of agent a holds the variables of the results that the
\* questionnaire lacks, as analysis-time quantitative variables, and counts no
\* name twice
AnalysisTimeCatalog(a) ==
    LET qs == QuestionnaireRows(a.questionnaire)
        res == ResultRows(a.results)
        atv == a.analysisTimeVariables
    IN  /\ \A i \in 1..Len(res) :
              (Truthy(res[i].question) /\ Trim(res[i].question) \notin QuestionnaireNames(qs))
              => /\ Trim(res[i].question) \in a.validQuestionNames
                 /\ Trim(res[i].question) \in Range(atv)
                 /\ \E j \in ContextLines(a, Trim(res[i].question)) :
                       /\ a.questionContextString[j].type = Str("analysis")
                       /\ a.questionContextString[j].toolHint = "[QUANTITATIVE]"
        /\ Cardinality(Range(atv)) = Len(atv)
        /\ Range(atv) \cap DeclaredNames(qs) = {}
        /\ Cardinality(a.validQuestionNames) = Cardinality(DeclaredNames(qs)) + Len(atv)

FoundFor(data, n) ==
    { i \in 1..Len(data) :
        /\ data[i].query.question_name = n
        /\ data[i].result # <<>> /\ data[i].result # NoQualitativeFound }

\* C18: the name of a questionnaire row whose type is not recognised is no
\* valid name, has no line in the context block, and no query for it finds
\* anything.
C18_UnrecognisedDropped ==
    \A a \in Agents :
        LET qs == QuestionnaireRows(a.questionnaire)
        IN  \A i \in 1..Len(qs) :
               (Truthy(qs[i].name) /\ ~IsRelevantQuestion(qs[i]))
               => /\ Trim(qs[i].name) \notin a.validQuestionNames
                  /\ ContextLines(a, Trim(qs[i].name)) = {}
                  /\ (turn.pc # "idle" /\ agents[turn.agent] = a)
                        => FoundFor(turn.collectedData, Trim(qs[i].name)) = {}

\* the result rows of agent a with question q and disaggregation d
MatchingRows(a, q, d) ==
    SelectSeq(ResultRows(a.results), LAMBDA row : row.question = q /\ row.disaggregation = d)

\* the quantitative queries among the executed queries of the turn in flight
QuantEntries ==
    { i \in 1..Len(turn.collectedData) : turn.collectedData[i].type = "Quantitative" }

\* C19: a quantitative query for (q, d) returns one entry for each result row
\* with that question and that disaggregation, in store order, and nothing
\* else; for a d that is not among the disaggregation values of the agent it
\* returns the empty sequence.
C19_QuantQueryExact ==
    \A i \in QuantEntries :
        LET e == turn.collectedData[i]
            a == agents[turn.agent]
            rows == MatchingRows(a, e.query.question_name, e.query.disaggregation)
        IN  /\ Len(e.result) = Len(rows)
            /\ \A j \in 1..Len(rows) :
                  /\ e.result[j].value = rows[j].value
                  /\ e.result[j].sample_size = rows[j].sample_size
            /\ e.query.disaggregation \notin Range(a.disaggregationValues)
                  => e.result = <<>>

\* C20 as stated: in every entry a quantitative query returns, group is the
\* disaggregation value passed to the query.
C20_GroupIsDisaggregationKey ==
    \A i \in QuantEntries :
        LET e == turn.collectedData[i]
        IN  \A j \in 1..Len(e.result) : e.result[j].group = e.query.disaggregation

\* C20 amended: group is "all" when the disaggregation is "all"; otherwise it
\* is the value the row holds in the column named by the disaggregation, and
\* undefined when the row has no such column.
C20_GroupIsRowColumn ==
    \A i \in QuantEntries :
        LET e == turn.collectedData[i]
            rows == MatchingRows(agents[turn.agent], e.query.question_name,
                                 e.query.disaggregation)
        IN  /\ Len(e.result) = Len(rows)
            /\ \A j \in 1..Len(rows) :
                  e.result[j].group =
                     IF e.query.disaggregation = Str("all") THEN Str("all")
                     ELSE IF e.query.disaggregation = Str("gender") THEN rows[j].gender
                     ELSE Undefined

\* the query for q1 by gender has returned the row of the group "female", and
\* the query for d1 over all respondents a row of the group "all"
C20_Witness ==
    \E i \in QuantEntries, k \in QuantEntries :
        /\ turn.collectedData[i].query.disaggregation = Str("gender")
        /\ Len(turn.collectedData[i].result) = 1
        /\ turn.collectedData[i].result[1].group = Str("female")
        /\ turn.collectedData[k].query.disaggregation = Str("all")
        /\ Len(turn.collectedData[k].result) = 1
        /\ turn.collectedData[k].result[1].group = Str("all")

----------------------------------------------------------------------------
(* Claims C21..C30 *)

\* the qualitative queries among the executed queries of the turn in flight
QualEntries ==
    { i \in 1..Len(turn.collectedData) : turn.collectedData[i].type = "Qualitative" }

\* the qualitative rows of agent a with question q, in store order
QualRowsFor(a, q) ==
    SelectSeq(QualitativeRows(a.qualitativeData), LAMBDA r : r.question = q)

SummaryRows(rows) == SelectSeq(rows, LAMBDA r : r.theme = Str("Executive Summary"))

ThemeRows(rows) == SelectSeq(rows, LAMBDA r : r.theme # Str("Executive Summary"))

\* the result of a qualitative query is the sentinel exactly when no row has
\* the question, and otherwise its themes are the rows with another theme
\* than 'Executive Summary', in store order
SentinelAndThemes(result, rows) ==
    /\ (result = NoQualitativeFound) <=> (rows = <<>>)
    /\ rows # <<>> =>
          /\ result.variable = rows[1].question
          /\ Len(result.themes) = Len(ThemeRows(rows))
          /\ \A j \in 1..Len(result.themes) :
                /\ result.themes[j].theme = ThemeRows(rows)[j].theme
                /\ result.themes[j].insight = ThemeRows(rows)[j].summary

\* C21 as stated: the sentinel is returned exactly when no qualitative row has
\* the question; otherwise the overview is the summary of a row with theme
\* 'Executive Summary', or the placeholder when there is no such row, and the
\* themes are the other rows in store order.
C21_OverviewIsSummary ==
    \A i \in QualEntries :
        LET e == turn.collectedData[i]
            rows == QualRowsFor(agents[turn.agent], e.query.question_name)
        IN  /\ SentinelAndThemes(e.result, rows)
            /\ rows # <<>> =>
                  IF SummaryRows(rows) = <<>> THEN e.result.overview = NO_SUMMARY
                  ELSE \E j \in 1..Len(SummaryRows(rows)) :
                          e.result.overview = SummaryRows(rows)[j].summary

\* C21, amended: the sentinel is returned exactly when no qualitative row has
\* the question; otherwise the overview is the summary of the first row with
\* theme 'Executive Summary' when that row exists and its summary is not
\* empty, and the placeholder in every other case; the themes are the other
\* rows in store order.
C21_OverviewIsFirstSummaryOrPlaceholder ==
    \A i \in QualEntries :
        LET e == turn.collectedData[i]
            rows == QualRowsFor(agents[turn.agent], e.query.question_name)
        IN  /\ SentinelAndThemes(e.result, rows)
            /\ rows # <<>> =>
                  IF SummaryRows(rows) # <<>> /\ Truthy(SummaryRows(rows)[1].summary)
                  THEN e.result.overview = SummaryRows(rows)[1].summary
                  ELSE e.result.overview = NO_SUMMARY

\* a turn has executed qualitative queries that found a summary, no summary
\* row, a summary row without text, and no row at all
C21_Witness ==
    /\ \E i \in QualEntries : turn.collectedData[i].result = NoQualitativeFound
    /\ \E i \in QualEntries :
          LET e == turn.collectedData[i]
              rows == QualRowsFor(agents[turn.agent], e.query.question_name)
          IN  rows # <<>> /\ SummaryRows(rows) = <<>> /\ e.result.overview = NO_SUMMARY
    /\ \E i \in QualEntries :
          LET e == turn.collectedData[i]
              rows == QualRowsFor(agents[turn.agent], e.query.question_name)
          IN  SummaryRows(rows) # <<>> /\ e.result.overview = SummaryRows(rows)[1].summary
    /\ \E i \in QualEntries :
          LET e == turn.collectedData[i]
              rows == QualRowsFor(agents[turn.agent], e.query.question_name)
          IN  /\ SummaryRows(rows) # <<>> /\ ~Truthy(SummaryRows(rows)[1].summary)
              /\ e.result.overview = NO_SUMMARY

\* C22: every theme a qualitative query returns has as prevalence the
\* proportion of its row times 100 with one decimal place and a percent sign
\* whenever the row has a proportion, a proportion of 0 included, and 'N/A'
\* only when the row has none.
C22_PrevalenceOfPresent ==
    \A i \in QualEntries :
        LET e == turn.collectedData[i]
            rows == QualRowsFor(agents[turn.agent], e.query.question_name)
        IN  rows # <<>> =>
              \A j \in 1..Len(e.result.themes) :
                 e.result.themes[j].prevalence =
                    PrevalenceOfPresent(ThemeRows(rows)[j].proportion_percent)

\* the trimmed disaggregation values of the rows res that have one
TrimmedDisaggregations(res) ==
    { Trim(res[i].disaggregation) :
        i \in { j \in 1..Len(res) : Truthy(res[j].disaggregation) } }

\* sequence idx holds every element of S once, in ascending order
SortedListOf(idx, S) ==
    /\ Range(idx) = S
    /\ Len(idx) = Cardinality(S)
    /\ \A i \in 1..Len(idx) : \A j \in 1..Len(idx) : i < j => StrLess(idx[i], idx[j])

\* C23: the disaggregation values of an agent are the trimmed disaggregation
\* values of its result rows, each once (values equal after trimming are one
\* value), in ascending lexicographic order; an agent built on an empty result
\* table has the empty list.
C23_DisaggregationIndex ==
    \A a \in Agents :
        /\ SortedListOf(a.disaggregationValues, TrimmedDisaggregations(ResultRows(a.results)))
        /\ ResultRows(a.results) = <<>> => a.disaggregationValues = <<>>

\* agents exist on a table whose values are out of order and equal only after
\* trimming, and on an empty table
C23_Witness ==
    /\ \E a \in Agents : a.results = "regions.xlsx"
                         /\ a.disaggregationValues = << Str("all"), Str("region") >>
    /\ \E a \in Agents : a.results = "empty.xlsx" /\ a.disaggregationValues = <<>>

\* C24: whenever the agent in use has a chat session, the enumeration of the
\* disaggregation parameter that session was created with holds exactly the
\* distinct trimmed disaggregation values of the result rows now loaded, also
\* after another results file has been uploaded.
C24_EnumerationOfLoadedRows ==
    (agent # 0 /\ agents[agent].chatSession # 0)
        => Range(sessions[agents[agent].chatSession].enum)
              = TrimmedDisaggregations(ResultRows(results))

\* C25: the first message a turn hands to the chat session is the text the
\* user sent, as typed, followed by one system note: the note that lists the
\* variables the selector identified when there are any, and the note that
\* none were found (also after a failed selector call) when there are none.
C25_FirstMessage ==
    [][ FirstSendStep
        => LET m == log'.lastSent[1].message
           IN  /\ m.text = turn.userText
               /\ m.vars = turn'.relevantVars
               /\ Range(m.vars) \subseteq agents[turn.agent].validQuestionNames
               /\ m.note = IF m.vars # <<>> THEN "Relevant variables identified"
                           ELSE "No direct variables found"
               /\ log'.selector = "failed" => m.vars = <<>> ]_vars

\* a first message that ends with a blank and names an identified variable
\* is with the chat session
C25_Witness ==
    /\ turn.pc = "chat" /\ turn.first /\ log.lastSent # <<>>
    /\ log.lastSent[1].message.text = <<"a", WS>>
    /\ log.lastSent[1].message.vars = << Str("q1") >>
    /\ log.lastSent[1].message.note = "Relevant variables identified"

\* C26: every step of the trace attached to an assistant message has been
\* completed: no step that was started in the turn (the selector call, a tool
\* invocation, the wait for the model after a tool round) is still in progress.
C26_NoStepInProgress ==
    \A i \in 1..Len(messages) :
        messages[i].role = "model"
            => \A j \in 1..Len(messages[i].traces) :
                   messages[i].traces[j].status = "completed"

\* a step in which a chat send of the turn in flight comes back as failed
ChatFailedStep ==
    turn.pc = "chat" /\ log'.failed

\* a step in which the selector call of the turn in flight comes back as failed
SelectorFailedStep ==
    turn.pc = "selector" /\ log'.selector = "failed"

\* C27: no failed call is issued again.  A failed chat send ends the turn in
\* the same step, with nothing handed to a chat session; after a failed
\* selector call the turn makes no other call than the first chat send it
\* would make for an empty answer; and no turn calls the selector twice.
C27_NoRetry ==
    /\ [][ ChatFailedStep
           => /\ turn'.pc = "idle" /\ ~isProcessing'
              /\ log'.lastSent = <<>>
              /\ sessions' = sessions ]_vars
    /\ [][ SelectorFailedStep
           => /\ turn'.pc # "selector"
              /\ log'.lastSent # <<>>
                    => /\ turn'.pc = "chat" /\ turn'.first
                       /\ log'.lastSent[1].message = MessageToSend(turn.userText, <<>>) ]_vars
    /\ [][ turn.pc = "chat" => turn'.pc # "selector" ]_vars

\* a turn whose selector call failed has ended on a failed follow-up send
C27_Witness ==
    /\ log.failed /\ log.outcome = "chat-failed" /\ log.point = "followup"
    /\ log.selector = "failed"
    /\ turn.pc = "idle"

\* a step in which a results workbook is uploaded
UploadStep == results' # results

\* workbook file has no second sheet with rows, or one that cannot be parsed
NoQualitativeSheet(file) ==
    ParseExcelQualitative(file).threw \/ ParseExcelQualitative(file).rows = <<>>

\* C28: the upload of a workbook without a second sheet, or with a second
\* sheet that cannot be parsed, loads the rows of the first sheet and makes
\* the qualitative dataset empty, whatever was loaded before; an agent built
\* in that step works on these rows and on no qualitative row.
C28_MissingSheetDegrades ==
    [][ (UploadStep /\ NoQualitativeSheet(results'))
        => /\ results' \in ResultsFiles
           /\ qualitativeData' # NoFile
           /\ QualitativeRows(qualitativeData') = <<>>
           /\ agent' # agent
                 => /\ ResultRows(agents'[agent'].results) = ResultRows(results')
                    /\ QualitativeRows(agents'[agent'].qualitativeData) = <<>> ]_vars

\* a workbook with an unreadable second sheet has been uploaded after one
\* without a second sheet, on which the agent was built
C28_Witness ==
    /\ results = "broken.xlsx" /\ ResultRows(results) # <<>>
    /\ qualitativeData = NoRows
    /\ agent # 0 /\ agents[agent].results = "regions.xlsx"
    /\ agents[agent].qualitativeData = NoRows

FollowUpStep ==
    turn.pc = "chat" /\ log.lastSent # <<>> /\ log'.lastSent # <<>>

\* C30: the message that carries the results of a tool round goes to the chat
\* session whose response requested the tools, i.e. the session the previous
\* message of the turn was sent to.
C30_FollowUpSameSession ==
    [][ FollowUpStep
        => log'.lastSent[1].session = log.lastSent[1].session ]_vars

----------------------------------------------------------------------------
(* Claims C31..C38 *)

\* a step in which the turn in flight ends as cancelled
CancelledEnd == TurnEnds /\ log'.outcome \in {"signal", "provider-abort"}

\* C31: when a turn ends as cancelled, the message list loses the user message
\* of that turn and nothing else: every other message, the notices of a model
\* or persona change appended during the turn included, stays in its place.
C31_CancelRemovesOwnMessage ==
    [][ CancelledEnd
        => messages' = SelectSeq(messages,
                          LAMBDA m : ~(m.role = "user" /\ m.turn = turn.id)) ]_vars

\* C32: when a turn ends as cancelled, no chat session holds a message of that
\* turn: neither its first message nor the results of a tool round it sent
\* before the cancellation.
C32_CancelledTurnLeavesNoHistory ==
    [][ CancelledEnd
        => \A sid \in 1..Len(sessions') : turn.id \notin sessions'[sid].turns ]_vars

\* C33: the message list holds no message of a turn that was started before the
\* last Clear Chat History (log.cleared is the number of turns started by then),
\* a turn that was in flight at the clear included.
C33_NoMessageFromBeforeClear ==
    \A i \in 1..Len(messages) :
        messages[i].turn = 0 \/ messages[i].turn > log.cleared

\* a step in which sendMessage resolves: handleSend appends the assistant
\* message of the turn
Resolved ==
    /\ TurnEnds
    /\ Len(messages') = Len(messages) + 1
    /\ messages'[Len(messages')].role = "model"
    /\ messages'[Len(messages')].turn = turn.id
    /\ messages'[Len(messages')].content = log'.text

\* a step in which sendMessage rejects: handleSend appends nothing
Rejected == TurnEnds /\ ~Resolved

\* C34: sendMessage ends in one of two ways.  It rejects exactly when the error
\* is an AbortError (the signal of the turn, or an AbortError of the provider);
\* every other failure in the turn (a failed chat send, a missing chat session,
\* an exception in the tool loop) resolves with the fixed error text; and a turn
\* whose signal is set rejects, whatever else has failed in it.
C34_RejectsOnlyOnAbort ==
    [][ TurnEnds
        => /\ Rejected <=> log'.outcome \in {"signal", "provider-abort"}
           /\ log'.outcome \in {"chat-failed", "no-session", "loop-threw"}
                 => Resolved /\ log'.text = ERROR_TEXT
           /\ (turn.aborted \/ SignalSet)
                 => Rejected /\ log'.outcome = "signal" ]_vars

\* a turn cancelled during a selector call that then failed has been rejected:
\* no assistant message, the text back in the input box
C34_Witness ==
    /\ log.outcome = "signal" /\ log.point = "selector" /\ log.selector = "failed"
    /\ ~isProcessing /\ input = <<"a", WS>>
    /\ \A i \in 1..Len(messages) : messages[i].role # "model"

\* C35: whenever no turn is in flight, isProcessing is false, the abort
\* controller is cleared and the progress trace is empty; and the trace of a
\* turn that starts holds its own first step and nothing else.
C35_IdleIsClean ==
    /\ [](turn.pc = "idle"
           => ~isProcessing /\ abortController = 0 /\ progressiveTraces = <<>>)
    /\ [][ (turn.pc = "idle" /\ turn'.pc # "idle")
           => progressiveTraces' = AddTrace(<<>>, "Identifying variables...") ]_vars

\* the second turn has started with its one step, after a first turn whose
\* assistant message carries the steps of a tool round
C35_Witness ==
    /\ turn.id = 2 /\ turn.pc = "selector" /\ Len(progressiveTraces) = 1
    /\ \E i \in 1..Len(messages) :
          /\ messages[i].role = "model" /\ messages[i].turn = 1
          /\ Len(messages[i].traces) >= 3

\* the question names a query of agent a can be made with: the stored ones,
\* their trimmed forms and the valid names
QueryNames(a) ==
    LET res == ResultRows(a.results)
    IN  { res[i].question : i \in 1..Len(res) }
           \cup { Trim(res[i].question) : i \in 1..Len(res) }
           \cup a.validQuestionNames

\* C36: every name an agent advertises is queryable as advertised, also when
\* cells of the result table carry surrounding blanks: for each of its
\* disaggregation values some question has rows under it, and each of its
\* analysis-time variables has rows under one of its disaggregation values.
C36_AdvertisedIsQueryable ==
    \A a \in Agents :
        /\ \A d \in Range(a.disaggregationValues) :
              \E q \in QueryNames(a) : ExecuteQuantQuery(a, q, d) # <<>>
        /\ \A v \in Range(a.analysisTimeVariables) :
              \E d \in Range(a.disaggregationValues) : ExecuteQuantQuery(a, v, d) # <<>>

\* agent a was constructed on a questionnaire without rows
EmptyQuestionnaire(a) == Len(QuestionnaireRows(a.questionnaire)) = 0

\* the turn in flight runs on an agent with an empty questionnaire
OnEmptyQuestionnaire == turn.pc # "idle" /\ EmptyQuestionnaire(agents[turn.agent])

\* an agent with an empty questionnaire has no chat session and an empty
\* catalog, whatever was called on it
EmptyStaysEmpty ==
    \A a \in Agents :
        EmptyQuestionnaire(a)
        => /\ a.chatSession = 0
           /\ a.validQuestionNames = {}
           /\ a.analysisTimeVariables = <<>>
           /\ a.questionContextString = <<>>

\* C37 as stated: an agent with an empty questionnaire never has a chat session
\* and its catalog stays empty, through construction, updateModel and
\* updateWritingStyle; and every turn on it ends, with the fixed error text as
\* its assistant message and isProcessing reset.
C37_EmptyQuestionnaireTurnFails ==
    /\ []EmptyStaysEmpty
    /\ [][ (TurnEnds /\ OnEmptyQuestionnaire)
           => /\ Resolved /\ log'.text = ERROR_TEXT
              /\ ~isProcessing' /\ abortController' = 0 ]_vars
    /\ [](OnEmptyQuestionnaire => <>(~isProcessing))

\* C37 amended: the same, for the turns that are not cancelled; a turn that
\* was cancelled during the selector call ends as cancelled, with no assistant
\* message and its text back in the input box.  No turn on such an agent
\* hands a message to a chat session.
C37_EmptyQuestionnaireTurnFailsOrIsCancelled ==
    /\ []EmptyStaysEmpty
    /\ [][ (TurnEnds /\ OnEmptyQuestionnaire)
           => /\ IF turn.aborted
                 THEN Rejected /\ log'.outcome = "signal" /\ input' = turn.userText
                 ELSE Resolved /\ log'.text = ERROR_TEXT /\ log'.outcome = "no-session"
              /\ ~isProcessing' /\ abortController' = 0 ]_vars
    /\ [][ OnEmptyQuestionnaire => ~SendIssued ]_vars
    /\ [](OnEmptyQuestionnaire => <>(~isProcessing))

\* after a change of the model, a turn on an agent with an empty questionnaire
\* has ended with the error text as the last message
C37_Witness ==
    /\ agent # 0 /\ EmptyQuestionnaire(agents[agent])
    /\ agents[agent].mainModel # "gemini-2.5-flash" \/ agents[agent].writingStyle # "development_economist"
    /\ log.outcome = "no-session" /\ ~isProcessing /\ sessions = <<>>
    /\ messages # <<>> /\ messages[Len(messages)].role = "model"
    /\ messages[Len(messages)].content = ERROR_TEXT

----------------------------------------------------------------------------
(* SurveyAgent used through its public interface: the constructor,
   updateWritingStyle and updateModel with any persona id and any text *)

\* persona ids a caller can pass: the four of the App, an id that is no key,
\* and an id that is a key of Object.prototype
PersonaIds == RolePersonas \cup {"editorial", "constructor"}

\* custom style guides: empty, blank, and text with and without a leading blank
StyleGuides == { <<>>, <<WS>>, <<"g1">>, <<WS, "g2">> }

\* new SurveyAgent(apiKey, results, questionnaire, qualitativeData, mainModel,
\* selectorModel, writingStyle, customStyleGuide)
Construct(qs, m, p, text) ==
    /\ agent = 0 /\ agents = <<>>
    /\ questionnaire' = qs
    /\ results' = "results.xlsx"
    /\ qualitativeData' = QualitativeOf("results.xlsx")
    /\ agents' = << NewSurveyAgent("results.xlsx", qs, QualitativeOf("results.xlsx"),
                                   m, p, text) >>
    /\ agent' = 1
    /\ sessions' = SessionsAfterInit(agents'[1])
    /\ UNCHANGED << messages, input, isProcessing, abortController, progressiveTraces,
                    selectedModel, selectedPersona, turn, log >>

\* agent.updateWritingStyle(writingStyle, customStyleGuide)
CallUpdateWritingStyle(p, text) ==
    /\ agent # 0
    /\ log.budget.notices > 0
    /\ agents' = [agents EXCEPT ![agent] = UpdateWritingStyle(@, p, text)]
    /\ sessions' = SessionsAfterInit(UpdateWritingStyle(agents[agent], p, text))
    /\ log' = [log EXCEPT !.budget.notices = @ - 1]
    /\ UNCHANGED << questionnaire, results, qualitativeData, messages, input,
                    isProcessing, agent, abortController, progressiveTraces,
                    selectedModel, selectedPersona, turn >>

\* agent.updateModel(mainModel)
CallUpdateModel(m) ==
    /\ agent # 0
    /\ log.budget.notices > 0
    /\ agents' = [agents EXCEPT ![agent] = UpdateModel(@, m)]
    /\ sessions' = SessionsAfterInit(UpdateModel(agents[agent], m))
    /\ log' = [log EXCEPT !.budget.notices = @ - 1]
    /\ UNCHANGED << questionnaire, results, qualitativeData, messages, input,
                    isProcessing, agent, abortController, progressiveTraces,
                    selectedModel, selectedPersona, turn >>

AgentInit ==
    /\ questionnaire = NoFile
    /\ results = NoFile
    /\ qualitativeData = NoFile
    /\ messages = <<>>
    /\ input = <<>>
    /\ isProcessing = FALSE
    /\ agent = 0
    /\ abortController = 0
    /\ progressiveTraces = <<>>
    /\ selectedModel = "gemini-2.5-flash"
    /\ selectedPersona = "development_economist"
    /\ agents = <<>>
    /\ turn = IdleTurn
    /\ sessions = <<>>
    /\ log = NewLog([turns |-> 0, toolResponses |-> 0, notices |-> MaxNotices,
                     clears |-> 0, reloads |-> 0, workbooks |-> {"results.xlsx"}])

AgentNext ==
    \/ \E qs \in QuestionnaireFiles : \E m \in MainModels :
          \E p \in PersonaIds : \E text \in StyleGuides : Construct(qs, m, p, text)
    \/ \E p \in PersonaIds : \E text \in StyleGuides : CallUpdateWritingStyle(p, text)
    \/ \E m \in MainModels : CallUpdateModel(m)

AgentSpec == AgentInit /\ [][AgentNext]_vars

\* C38: the style guide in the system prompt of an agent's chat session is the
\* custom text exactly when the persona is "custom" and the text is not blank;
\* for a built-in persona it is the guide of that persona; for "custom" with a
\* blank text and for an id that is no persona it is the guide of the
\* development economist.  The role description follows the persona id alone:
\* that of the id for the four personas, that of the development economist for
\* any other id.
C38_StyleGuideOfPersona ==
    \A a \in Agents :
        a.chatSession # 0
        => LET s == sessions[a.chatSession]
               p == a.writingStyle
               text == a.customStyleGuide
           IN  /\ (p = "custom" /\ Trim(text) # <<>>) => s.style = text
               /\ s.style = text => (p = "custom" /\ Trim(text) # <<>>)
               /\ p \in BuiltInPersonas => s.style = Str(p)
               /\ (p \notin BuiltInPersonas /\ ~(p = "custom" /\ Trim(text) # <<>>))
                     => s.style = Str("development_economist")
               /\ s.role = IF p \in RolePersonas THEN p ELSE "development_economist"

============================================================================
